---- MODULE Spec2Model ----
(***************************************************************************)
(* Offline replication between per-device RxDB stores and the shared       *)
(* Supabase store (app/lib/db/replication/supabase.ts), with the database  *)
(* triggers of supabase/migrations/001_initial_schema.sql.                 *)
(*                                                                         *)
(* Time is one wall clock `now`, counted in sub-millisecond units, SubMs   *)
(* of them to the millisecond.  A timestamp is a reading of it: a Postgres *)
(* NOW() is the reading itself, a client stamp (new Date().toISOString())  *)
(* is the reading cut to the millisecond.  lastSync = 0 stands for null.   *)
(***************************************************************************)
EXTENDS Integers, Sequences, FiniteSets, TLC

MaxTime == 3
MaxVal == 2
NumIds == 2
SubMs == 2
MaxQueue == 1
MaxWrites == 3
MaxSyncs == 3
MaxSyncAlls == 1

Devices == {"A", "B"}
Slots == {1, 2}
Tasks == Devices \X Slots
Tenants == {"c1", "c2"}
CollectionNames == {"territories", "houses", "assignments"}
Ids == 1..NumIds
Vals == 1..MaxVal

VARIABLES now, remote, local, replicationStates, task, feed, handler,
          congregation, subscribed, used, writes, syncs

\* The state around the replication layer: the timer of initializeReplication,
\* and the Do Not Call fields of the houses of one device (houseDocs) and of the
\* rows its pushes write (houseRows).
VARIABLES intervalId, houseDocs, houseRows

\* The check-outs: the status of the territory rows, the assignment rows, the
\* assignments a device has created and not pushed yet, and the API requests
\* and checkout_territory calls that are under way.
VARIABLES territoryStatus, assignments, pendingAssignments, request

coreVars == <<now, remote, local, replicationStates, task, feed, handler,
              congregation, subscribed, used, writes, syncs>>

timerVars == <<intervalId>>

dncVars == <<houseDocs, houseRows>>

checkoutVars == <<territoryStatus, assignments, pendingAssignments, request>>

\* The local database module of one browser: the module's dbPromise, the
\* IndexedDB databases by tenant, the instance the hook holds, the last call
\* made to the module, and the number of instances created.
VARIABLES dbPromise, idb, db, lastCall, opens

dbVars == <<dbPromise, idb, db, lastCall, opens>>

\* The state of the useSync hook of each device, and whether its sync() is
\* under way.
VARIABLES useSync

hookVars == <<useSync>>

\* The subscriber of one realtime channel seen from the shape of the payloads:
\* the payload its callback took last with what became of it, and the ids of
\* the documents of the collection.
VARIABLES subscriber, docIds

payloadVars == <<subscriber, docIds>>

\* The territory each device's handleDelete is deleting (0 for null).
VARIABLES deletingId

deleteVars == <<deletingId>>

extVars == <<timerVars, dncVars, checkoutVars, dbVars, hookVars, payloadVars, deleteVars>>

\* What the actions on the timer leave alone of the surrounding state.
exceptTimer == <<dncVars, checkoutVars, dbVars, hookVars, payloadVars, deleteVars>>

\* What the actions on the Do Not Call fields leave alone.
exceptDnc == <<timerVars, checkoutVars, dbVars, hookVars, payloadVars, deleteVars>>

\* What the actions on the check-outs leave alone.
exceptCheckout == <<timerVars, dncVars, dbVars, hookVars, payloadVars, deleteVars>>

\* What the actions on the local database module leave alone.
exceptDb == <<timerVars, dncVars, checkoutVars, hookVars, payloadVars, deleteVars>>

\* What the actions on the useSync hook leave alone.
exceptHook == <<timerVars, dncVars, checkoutVars, dbVars, payloadVars, deleteVars>>

\* What the subscriber's actions on payloads leave alone.
exceptPayload == <<timerVars, dncVars, checkoutVars, dbVars, hookVars, deleteVars>>

\* What handleDelete leaves alone.
exceptDelete == <<timerVars, dncVars, checkoutVars, dbVars, payloadVars>>

vars == <<coreVars, extVars>>

\* A document: its tenant, its updated_at stamp and the rest of its fields.
Absent == [congregation_id |-> "none", updated_at |-> 0, val |-> 0]

Doc(cid, stamp, v) == [congregation_id |-> cid, updated_at |-> stamp, val |-> v]

Row(id, doc) == [id |-> id, doc |-> doc]

EmptyStore == [id \in Ids |-> Absent]

\* new Date().toISOString(): the clock, millisecond resolution.
ClientStamp == (now \div SubMs) * SubMs

\* NOW() in the database: the clock, with its sub-millisecond part.
ServerStamp == now

\* new Date(s).getTime(): parsing keeps the milliseconds only.
getTime(stamp) == stamp \div SubMs

InitialReplicationState ==
    [isActive |-> FALSE, lastSync |-> 0, pendingChanges |-> 0, error |-> "none"]

IdleTask ==
    [pc |-> "idle", all |-> FALSE, todo |-> <<>>, coll |-> "none", since |-> 0,
     rows |-> <<>>, i |-> 0, existing |-> Absent, pulled |-> 0, pushed |-> 0,
     results |-> <<>>, thrown |-> FALSE]

NoEvent == [eventType |-> "none", coll |-> "none", id |-> 0, cid |-> "none", new |-> Absent]

IdleHandler == [pc |-> "idle", ev |-> NoEvent, existing |-> Absent]

dev(k) == k[1]

\* The permutations of a finite set, as sequences.
Perms(S) ==
    {s \in [1..Cardinality(S) -> S] : \A a, b \in 1..Cardinality(S) : a # b => s[a] # s[b]}

\* query.order('updated_at', {ascending: true}); ties come in any order.
OrderedByUpdatedAt(store, S) ==
    {s \in Perms(S) :
        \A a, b \in 1..Cardinality(S) :
            a < b => store[s[a]].updated_at <= store[s[b]].updated_at}

\* RxDB's default sort of a find(): by primary key.
OrderedById(S) ==
    CHOOSE s \in Perms(S) : \A a, b \in 1..Cardinality(S) : a < b => s[a] < s[b]

Rows(store, order) == [n \in 1..Len(order) |-> Row(order[n], store[order[n]])]

\* The pull query without .eq('congregation_id', congregationId).
PullSelectAnyTenant(store, cid, since) ==
    {id \in Ids : /\ store[id] # Absent
                  /\ (since # 0 => store[id].updated_at > since)}

\* .eq('congregation_id', congregationId) and, with a cursor, .gt('updated_at', since)
PullSelect(store, cid, since) ==
    {id \in Ids : /\ store[id] # Absent
                  /\ store[id].congregation_id = cid
                  /\ (since # 0 => store[id].updated_at > since)}

\* The comparison the other way round: the local copy wins unless it is later.
ServerIsOlder(doc, existing) == getTime(doc.updated_at) < getTime(existing.updated_at)

\* if (serverTime > localTime)
ServerIsNewer(doc, existing) == getTime(doc.updated_at) > getTime(existing.updated_at)

\* existing.update({$set: doc}): every field of doc replaces the local one.
SetDoc(existing, doc) == doc

\* A push with no filter: every document of the tenant is sent.
NeedsSyncAlways(doc, since) == TRUE

\* docs.filter(doc => new Date(doc.updated_at || 0) > new Date(since)), or all
\* the documents when there is no cursor.
NeedsSync(doc, since) == since = 0 \/ getTime(doc.updated_at) > getTime(since)

\* collection.find({selector: {congregation_id: congregationId}})
LocalSelect(store, cid) ==
    {id \in Ids : store[id] # Absent /\ store[id].congregation_id = cid}

\* A row written by ON CONFLICT DO UPDATE passes the BEFORE UPDATE trigger, which
\* sets updated_at to NOW(); a row that is inserted keeps the stamp it came with.
UpsertRow(old, doc, stamp) ==
    IF old = Absent THEN doc ELSE [doc EXCEPT !.updated_at = stamp]

\* An upsert that replaces the table by the batch.
UpsertReplacing(store, rows, stamp) ==
    [id \in Ids |->
        IF \E n \in 1..Len(rows) : rows[n].id = id
        THEN LET n == CHOOSE m \in 1..Len(rows) : rows[m].id = id
             IN  UpsertRow(store[id], rows[n].doc, stamp)
        ELSE Absent]

\* supabase.from(c).upsert(records, {onConflict: 'id'}): one statement.
Upsert(store, rows, stamp) ==
    [id \in Ids |->
        IF \E n \in 1..Len(rows) : rows[n].id = id
        THEN LET n == CHOOSE m \in 1..Len(rows) : rows[m].id = id
             IN  UpsertRow(store[id], rows[n].doc, stamp)
        ELSE store[id]]

\* The change events of an upsert, in the order of the batch.
UpsertEvents(c, store, rows, stamp) ==
    [n \in 1..Len(rows) |->
        [eventType |-> IF store[rows[n].id] = Absent THEN "INSERT" ELSE "UPDATE",
         coll |-> c,
         id |-> rows[n].id,
         cid |-> rows[n].doc.congregation_id,
         new |-> UpsertRow(store[rows[n].id], rows[n].doc, stamp)]]

\* A device with an open channel gets the events that pass the channel's
\* filter: `congregation_id=eq.${congregationId}`, which the subscription asks
\* for with event '*' and which is taken to apply to every event type.
ChannelFilter(d, ev) == subscribed[d] /\ ev.cid = congregation[d]

PickSeq(s, I) ==
    LET F[n \in 0..Len(s)] ==
            IF n = 0 THEN <<>>
            ELSE IF n \in I THEN Append(F[n - 1], s[n]) ELSE F[n - 1]
    IN  F[Len(s)]

\* The realtime feed delivers the events that pass a channel's filter, in order;
\* it may lose events, and holds at most MaxQueue undelivered ones per device.
Broadcast(evs) ==
    \E choice \in [Devices -> SUBSET (1..Len(evs))] :
        /\ \A d \in Devices :
              /\ \A n \in choice[d] : ChannelFilter(d, evs[n])
              /\ Len(feed[d]) + Cardinality(choice[d]) <= MaxQueue
        /\ feed' = [d \in Devices |-> feed[d] \o PickSeq(evs, choice[d])]

----
\* The Do Not Call fields of a house document.
Addresses == {"12 Elm St", "7 Oak Ave"}

HouseStatuses == {"not-visited", "interest", "dnc"}

NoHouse == [address |-> "none", status |-> "none", is_dnc |-> FALSE,
            dnc_encrypted_address |-> "null"]

\* encryptDncAddress: the AES ciphertext of the address, which is not the address.
encryptDncAddress(address) ==
    IF address = "12 Elm St" THEN "U2FsdGVkX18xMg" ELSE "U2FsdGVkX183Tw"

----
\* The check-outs of the territories of one congregation.
MaxAssignments == 3

Territories == {"T1", "T2"}

AssignmentIds == 1..MaxAssignments

Clients == {"r1", "r2"}

\* An id no assignment row has had yet.
NoAssignment == [territory_id |-> "none", status |-> "unused"]

IdleRequest == [pc |-> "idle", territory_id |-> "none"]

\* The rows a query for the active assignments of a territory finds.
ActiveAssignments(rows, t) ==
    {id \in AssignmentIds : rows[id].territory_id = t /\ rows[id].status = "active"}

----
\* The local database module.
MaxOpens == 3

\* dbPromise = null, and the hook's db = null.
NoDb == [name |-> "none", instance |-> 0]

----
\* useSync after its first render: the useState initial values (null is 0 for
\* lastSync), and no sync() under way.
InitialUseSync == [isSyncing |-> FALSE, lastSync |-> 0, error |-> "null", calling |-> FALSE]

----
\* The payloads a channel can hand to the callback, by shape.  kind is what the
\* payload is (an object, a string, null); eventType "missing" is no eventType;
\* new and old are "missing" (undefined), "null" or "object"; newId and oldId
\* are the id of new and old: "missing", "number" (not a string) or a string id.
DocIds == {"h1", "h2"}

IdShapes == {"missing", "number"} \cup DocIds

ObjectPayloads ==
    {q \in [kind : {"object"},
            eventType : {"INSERT", "UPDATE", "DELETE", "TRUNCATE", "missing"},
            new : {"missing", "null", "object"}, newId : IdShapes,
            old : {"missing", "null", "object"}, oldId : IdShapes] :
        /\ q.new # "object" => q.newId = "missing"
        /\ q.old # "object" => q.oldId = "missing"}

OtherPayload(kind) ==
    [kind |-> kind, eventType |-> "missing", new |-> "missing", newId |-> "missing",
     old |-> "missing", oldId |-> "missing"]

Payloads == ObjectPayloads \cup {OtherPayload("string"), OtherPayload("null")}

NoPayload == OtherPayload("none")

\* JavaScript's typeof on a payload or a field: typeof null is 'object'.
typeof(x) ==
    IF x \in {"object", "null"} THEN "object"
    ELSE IF x = "missing" THEN "undefined"
    ELSE "string"

isValidPayload(q) ==
    /\ ~(typeof(q.kind) # "object" \/ q.kind = "null")
    /\ q.eventType \in {"INSERT", "UPDATE", "DELETE"}
    /\ typeof(q.new) = "object"
    /\ (q.old = "missing" \/ typeof(q.old) = "object")

----
\* Before initializeReplication no timer is set.
InitExt ==
    /\ intervalId = [d \in Devices |-> FALSE]
    /\ houseDocs = [id \in Ids |-> NoHouse]
    /\ houseRows = [id \in Ids |-> NoHouse]
    /\ territoryStatus = [t \in Territories |-> "in-stock"]
    /\ assignments = [id \in AssignmentIds |-> NoAssignment]
    /\ pendingAssignments = [d \in Devices |-> [id \in AssignmentIds |-> "none"]]
    /\ request = [r \in Clients |-> IdleRequest]
    /\ dbPromise = NoDb
    /\ idb = [t \in Tenants |-> {}]
    /\ db = NoDb
    /\ lastCall = [op |-> "none", tenant |-> "none", docs |-> {}]
    /\ opens = 0
    /\ useSync = [d \in Devices |-> InitialUseSync]
    /\ subscriber = [pc |-> "idle", payload |-> NoPayload, outcome |-> "none"]
    /\ docIds = {}
    /\ deletingId = [d \in Devices |-> 0]

\* Initial state: empty stores, no cursor, nothing in flight.
Init ==
    /\ InitExt
    /\ now = SubMs
    /\ remote = [c \in CollectionNames |-> EmptyStore]
    /\ local = [d \in Devices |-> [c \in CollectionNames |-> EmptyStore]]
    /\ replicationStates =
          [d \in Devices |-> [c \in CollectionNames |-> InitialReplicationState]]
    /\ task = [k \in Tasks |-> IdleTask]
    /\ feed = [d \in Devices |-> <<>>]
    /\ handler = [d \in Devices |-> IdleHandler]
    /\ congregation = [d \in Devices |-> "c1"]
    /\ subscribed = [d \in Devices |-> FALSE]
    /\ used = [c \in CollectionNames |-> {}]
    /\ writes = 0
    /\ syncs = 0

\* Time passes, up to the end of millisecond MaxTime.
Tick ==
    /\ now < (MaxTime + 1) * SubMs - 1
    /\ now' = now + 1
    /\ UNCHANGED <<extVars, remote, local, replicationStates, task, feed, handler, congregation,
                   subscribed, used, writes, syncs>>

\* generateId(): `${Date.now()}-${random}`, which no other document has; ids
\* sort in the order of their creation.
GenerateId(c) == {id \in Ids \ used[c] : \A other \in Ids \ used[c] : id <= other}

\* addHouse / addTerritory / addAssignment: collection.insert of a new document
\* with a generated id, stamped by the device clock.
CreateLocal(d, c) ==
    \E id \in GenerateId(c), v \in Vals :
        /\ local' = [local EXCEPT ![d][c][id] = Doc(congregation[d], ClientStamp, v)]
        /\ used' = [used EXCEPT ![c] = @ \cup {id}]
        /\ writes < MaxWrites
        /\ writes' = writes + 1
        /\ UNCHANGED <<extVars, now, remote, replicationStates, task, feed, handler,
                       congregation, subscribed, syncs>>

\* updateHouse: doc.update({$set: {...updates, updated_at: new Date().toISOString()}})
EditLocal(d, c) ==
    \E id \in Ids, v \in Vals :
        /\ local[d][c][id] # Absent
        /\ local' = [local EXCEPT ![d][c][id] =
                        [@ EXCEPT !.val = v, !.updated_at = ClientStamp]]
        /\ writes < MaxWrites
        /\ writes' = writes + 1
        /\ UNCHANGED <<extVars, now, remote, replicationStates, task, feed, handler,
                       congregation, subscribed, used, syncs>>

----
\* syncCollection up to its first await: the cursor is read and handed to
\* pullFromSupabase, which marks the collection active and sends its query.
BeginCollection(t, d, c) ==
    [t EXCEPT !.pc = "pull_query", !.coll = c,
              !.since = replicationStates[d][c].lastSync,
              !.rows = <<>>, !.i = 0, !.existing = Absent,
              !.pulled = 0, !.pushed = 0, !.thrown = FALSE]

StartSyncCollection(k, c) ==
    /\ task[k].pc \in {"idle", "done"}
    /\ task' = [task EXCEPT ![k] =
                  BeginCollection([IdleTask EXCEPT !.all = FALSE], dev(k), c)]
    /\ replicationStates' = [replicationStates EXCEPT ![dev(k)][c].isActive = TRUE]
    /\ syncs < MaxSyncs
    /\ syncs' = syncs + 1
    /\ UNCHANGED <<extVars, now, remote, local, feed, handler, congregation, subscribed, used,
                   writes>>

\* After a row: the next findOne, or the end of the pull, which records the
\* updated_at of the last row as the cursor.
AfterRow(t) ==
    IF t.i = Len(t.rows)
    THEN [t EXCEPT !.pc = "push_start", !.pulled = Len(t.rows), !.existing = Absent]
    ELSE [t EXCEPT !.pc = "pull_find", !.i = @ + 1, !.existing = Absent]

AfterRowState(t, st) ==
    IF t.i = Len(t.rows)
    THEN [st EXCEPT !.lastSync = t.rows[Len(t.rows)].doc.updated_at, !.isActive = FALSE]
    ELSE st

\* The remote query of pullFromSupabase is answered.
PullQuery(k) ==
    LET t == task[k]
        d == dev(k)
        c == t.coll
    IN  /\ t.pc = "pull_query"
        /\ \E order \in OrderedByUpdatedAt(remote[c],
                                           PullSelect(remote[c], congregation[d], t.since)) :
              IF order = <<>>
              THEN /\ task' = [task EXCEPT ![k] = [t EXCEPT !.pc = "push_start", !.pulled = 0]]
                   /\ replicationStates' =
                        [replicationStates EXCEPT ![d][c].isActive = FALSE]
              ELSE /\ task' = [task EXCEPT ![k] =
                                  [t EXCEPT !.pc = "pull_find",
                                            !.rows = Rows(remote[c], order), !.i = 1]]
                   /\ UNCHANGED replicationStates
        /\ UNCHANGED <<extVars, now, remote, local, feed, handler, congregation, subscribed,
                       used, writes, syncs>>

\* collection.findOne(doc.id).exec(), and the comparison of the two stamps.
PullFind(k) ==
    LET t == task[k]
        d == dev(k)
        c == t.coll
        row == t.rows[t.i]
        existing == local[d][c][row.id]
    IN  /\ t.pc = "pull_find"
        /\ IF existing # Absent /\ ~ServerIsNewer(row.doc, existing)
           THEN /\ task' = [task EXCEPT ![k] = AfterRow(t)]
                /\ replicationStates' =
                     [replicationStates EXCEPT ![d][c] = AfterRowState(t, @)]
           ELSE /\ task' = [task EXCEPT ![k] =
                               [t EXCEPT !.pc = "pull_write", !.existing = existing]]
                /\ UNCHANGED replicationStates
        /\ UNCHANGED <<extVars, now, remote, local, feed, handler, congregation, subscribed,
                       used, writes, syncs>>

\* A write through an RxDocument is made against the revision that was read: it
\* fails with a conflict when the document has changed since (and an insert fails
\* when the id exists by now).
WriteLocal(cur, read, doc) == IF cur = read THEN SetDoc(cur, doc) ELSE cur

\* existing.update({$set: doc}) or collection.insert(doc); an error is logged.
PullWrite(k) ==
    LET t == task[k]
        d == dev(k)
        c == t.coll
        row == t.rows[t.i]
    IN  /\ t.pc = "pull_write"
        /\ local' = [local EXCEPT ![d][c][row.id] = WriteLocal(@, t.existing, row.doc)]
        /\ task' = [task EXCEPT ![k] = AfterRow(t)]
        /\ replicationStates' = [replicationStates EXCEPT ![d][c] = AfterRowState(t, @)]
        /\ UNCHANGED <<extVars, now, remote, feed, handler, congregation, subscribed, used,
                       writes, syncs>>

\* The end of one syncCollection: inside syncAll the loop goes on (see SyncNext),
\* a direct call returns {pulled, pushed} or rethrows.
EndCollection(t, pushed, thrown) ==
    IF t.all
    THEN [t EXCEPT !.pc = "coll_end", !.pushed = pushed, !.thrown = thrown,
                   !.rows = <<>>, !.i = 0, !.since = 0]
    ELSE [t EXCEPT !.pc = "done", !.pushed = pushed, !.thrown = thrown,
                   !.rows = <<>>, !.i = 0, !.since = 0,
                   !.results = IF thrown THEN <<>>
                               ELSE <<[coll |-> t.coll, pulled |-> t.pulled,
                                       pushed |-> pushed]>>]

\* What the client returns as the error of a failed request: an instance of
\* Error or a plain object, with a message.
AnError(message) == [instanceofError |-> TRUE, message |-> message]

RemoteErrors ==
    {AnError("Failed to fetch"), [instanceofError |-> FALSE, message |-> "permission denied"]}

\* error instanceof Error ? error.message : 'Unknown error'
ErrorMessage(err) == IF err.instanceofError THEN err.message ELSE "Unknown error"

\* The query of pullFromSupabase returns the error err: the catch block records
\* it and rethrows.
PullQueryError(k, err) ==
    LET t == task[k]
        d == dev(k)
    IN  /\ t.pc = "pull_query"
        /\ replicationStates' = [replicationStates EXCEPT
                                    ![d][t.coll].isActive = FALSE,
                                    ![d][t.coll].error = ErrorMessage(err)]
        /\ task' = [task EXCEPT ![k] = EndCollection(t, 0, TRUE)]
        /\ UNCHANGED <<extVars, now, remote, local, feed, handler, congregation, subscribed,
                       used, writes, syncs>>

\* The query fails with an Error whose message names the step.
PullQueryFails(k) == PullQueryError(k, AnError("pull"))

\* pushToSupabase up to its first await: state.lastSync is read, the local
\* query is started.
PushStart(k) ==
    LET t == task[k]
        d == dev(k)
    IN  /\ t.pc = "push_start"
        /\ task' = [task EXCEPT ![k] =
                      [t EXCEPT !.pc = "push_read",
                                !.since = replicationStates[d][t.coll].lastSync,
                                !.rows = <<>>, !.i = 0]]
        /\ replicationStates' = [replicationStates EXCEPT ![d][t.coll].isActive = TRUE]
        /\ UNCHANGED <<extVars, now, remote, local, feed, handler, congregation, subscribed,
                       used, writes, syncs>>

\* A direct call of pushToSupabase.
StartPush(k, c) ==
    /\ task[k].pc \in {"idle", "done"}
    /\ task' = [task EXCEPT ![k] =
                  [IdleTask EXCEPT !.pc = "push_read", !.coll = c,
                                   !.since = replicationStates[dev(k)][c].lastSync]]
    /\ replicationStates' = [replicationStates EXCEPT ![dev(k)][c].isActive = TRUE]
    /\ syncs < MaxSyncs
    /\ syncs' = syncs + 1
    /\ UNCHANGED <<extVars, now, remote, local, feed, handler, congregation, subscribed, used,
                   writes>>

\* The documents a push sends: the tenant's local documents past the cursor, in
\* the order of the local query.
DocsToSync(store, cid, since) ==
    SelectSeq(Rows(store, OrderedById(LocalSelect(store, cid))),
              LAMBDA r : NeedsSync(r.doc, since))

\* query.exec() is answered; the batch is built and the upsert is sent.
PushRead(k) ==
    LET t == task[k]
        d == dev(k)
        c == t.coll
        records == DocsToSync(local[d][c], congregation[d], t.since)
    IN  /\ t.pc = "push_read"
        /\ IF records = <<>>
           THEN /\ task' = [task EXCEPT ![k] = EndCollection(t, 0, FALSE)]
                /\ replicationStates' =
                     [replicationStates EXCEPT ![d][c].isActive = FALSE]
           ELSE /\ task' = [task EXCEPT ![k] =
                               [t EXCEPT !.pc = "push_upsert", !.rows = records]]
                /\ UNCHANGED replicationStates
        /\ UNCHANGED <<extVars, now, remote, local, feed, handler, congregation, subscribed,
                       used, writes, syncs>>

\* The upsert is applied by the database, which announces the changed rows.
PushUpsert(k) ==
    LET t == task[k]
        c == t.coll
    IN  /\ t.pc = "push_upsert"
        /\ remote' = [remote EXCEPT ![c] = Upsert(@, t.rows, ServerStamp)]
        /\ Broadcast(UpsertEvents(c, remote[c], t.rows, ServerStamp))
        /\ task' = [task EXCEPT ![k] = [t EXCEPT !.pc = "push_ack"]]
        /\ UNCHANGED <<extVars, now, local, replicationStates, handler, congregation,
                       subscribed, used, writes, syncs>>

\* The upsert returns the error err: nothing is written, the catch block
\* records the error and rethrows.
PushUpsertError(k, err) ==
    LET t == task[k]
        d == dev(k)
    IN  /\ t.pc = "push_upsert"
        /\ replicationStates' = [replicationStates EXCEPT
                                    ![d][t.coll].isActive = FALSE,
                                    ![d][t.coll].error = ErrorMessage(err)]
        /\ task' = [task EXCEPT ![k] = EndCollection(t, 0, TRUE)]
        /\ UNCHANGED <<extVars, now, remote, local, feed, handler, congregation, subscribed,
                       used, writes, syncs>>

\* The upsert fails with an Error whose message names the step.
PushUpsertFails(k) == PushUpsertError(k, AnError("push"))

\* The cursor a push leaves: the updated_at of the last record of the batch.
PushCursor(records) == records[Len(records)].doc.updated_at

\* The upsert has succeeded: the cursor moves and the count is returned.
PushAck(k) ==
    LET t == task[k]
        d == dev(k)
    IN  /\ t.pc = "push_ack"
        /\ replicationStates' = [replicationStates EXCEPT
                                    ![d][t.coll].lastSync = PushCursor(t.rows),
                                    ![d][t.coll].pendingChanges = 0,
                                    ![d][t.coll].isActive = FALSE]
        /\ task' = [task EXCEPT ![k] = EndCollection(t, Len(t.rows), FALSE)]
        /\ UNCHANGED <<extVars, now, remote, local, feed, handler, congregation, subscribed,
                       used, writes, syncs>>

----
\* A syncAll that takes the houses first.
SyncOrderHousesFirst == <<"houses", "territories", "assignments">>

\* The order in which syncAll takes the collections.
SyncOrder == <<"territories", "houses", "assignments">>

\* syncAll up to its first await: the first syncCollection is started.
BeginSyncAll(k) ==
    /\ task[k].pc \in {"idle", "done"}
    /\ task' = [task EXCEPT ![k] =
                  BeginCollection([IdleTask EXCEPT !.all = TRUE, !.todo = Tail(SyncOrder)],
                                  dev(k), Head(SyncOrder))]
    /\ replicationStates' =
          [replicationStates EXCEPT ![dev(k)][Head(SyncOrder)].isActive = TRUE]
    /\ syncs < MaxSyncs
    /\ syncs' = syncs + 1
    /\ UNCHANGED <<now, remote, local, feed, handler, congregation, subscribed, used,
                   writes>>

\* syncAll called from outside the hook.
StartSyncAll(k) ==
    /\ BeginSyncAll(k)
    /\ UNCHANGED extVars

\* A catch block that keeps the count of the pull that succeeded.
ResultEntryKeepsPulled(t) ==
    [coll |-> t.coll, pulled |-> t.pulled, pushed |-> IF t.thrown THEN 0 ELSE t.pushed]

\* results[collectionName] of syncAll: what syncCollection returned, or
\* {pulled: 0, pushed: 0} when it threw.
ResultEntry(t) ==
    IF t.thrown THEN [coll |-> t.coll, pulled |-> 0, pushed |-> 0]
    ELSE [coll |-> t.coll, pulled |-> t.pulled, pushed |-> t.pushed]

\* The loop of syncAll: the result of one collection is recorded (the catch
\* block absorbs a throw) and the next syncCollection is started, or syncAll returns.
SyncNext(k) ==
    LET t == task[k]
        d == dev(k)
        r == [t EXCEPT !.results = Append(@, ResultEntry(t)), !.thrown = FALSE]
    IN  /\ t.pc = "coll_end"
        /\ IF t.todo = <<>>
           THEN /\ task' = [task EXCEPT ![k] = [r EXCEPT !.pc = "done"]]
                /\ UNCHANGED replicationStates
           ELSE /\ task' = [task EXCEPT ![k] =
                              BeginCollection([r EXCEPT !.todo = Tail(@)], d, Head(t.todo))]
                /\ replicationStates' =
                     [replicationStates EXCEPT ![d][Head(t.todo)].isActive = TRUE]
        /\ UNCHANGED <<extVars, now, remote, local, feed, handler, congregation, subscribed,
                       used, writes, syncs>>

----
\* initializeReplication: a channel per collection is subscribed with the
\* device's tenant as filter, and setInterval arms the periodic syncAll (whose
\* firing is TimerFires).
InitializeReplication(d) ==
    /\ ~subscribed[d]
    /\ subscribed' = [subscribed EXCEPT ![d] = TRUE]
    /\ intervalId' = [intervalId EXCEPT ![d] = TRUE]
    /\ UNCHANGED <<exceptTimer, now, remote, local, replicationStates, task, feed, handler,
                   congregation, used, writes, syncs>>

\* The signed-in user changes to another congregation: the effect of useSync is
\* cleaned up (channels removed, timer cleared) and runs again for the new
\* tenant.  initDatabase returns the database that is already open, whichever
\* tenant it was opened for, so the local documents and the cursors stay.
SwitchTenant(d) ==
    /\ \A k \in Tasks : dev(k) = d => task[k].pc \in {"idle", "done"}
    /\ handler[d].pc = "idle"
    /\ \E cid \in Tenants \ {congregation[d]} :
          congregation' = [congregation EXCEPT ![d] = cid]
    /\ subscribed' = [subscribed EXCEPT ![d] = FALSE]
    /\ intervalId' = [intervalId EXCEPT ![d] = FALSE]
    /\ feed' = [feed EXCEPT ![d] = <<>>]
    /\ UNCHANGED <<exceptTimer, now, remote, local, replicationStates, task, handler, used,
                   writes, syncs>>

\* The channel callback of subscribeToChanges hands a payload to the handler of
\* initializeReplication, which starts findOne(id).exec().
RtReceive(d) ==
    /\ handler[d].pc = "idle"
    /\ feed[d] # <<>>
    /\ handler' = [handler EXCEPT ![d] =
                     [pc |-> "rt_find", ev |-> Head(feed[d]), existing |-> Absent]]
    /\ feed' = [feed EXCEPT ![d] = Tail(@)]
    /\ UNCHANGED <<extVars, now, remote, local, replicationStates, task, congregation,
                   subscribed, used, writes, syncs>>

\* findOne(id).exec() is answered.  A DELETE for a document that is not there ends.
RtFind(d) ==
    LET h == handler[d]
        existing == local[d][h.ev.coll][h.ev.id]
    IN  /\ h.pc = "rt_find"
        /\ handler' = [handler EXCEPT ![d] =
                         IF h.ev.eventType = "DELETE" /\ existing = Absent
                         THEN IdleHandler
                         ELSE [h EXCEPT !.pc = "rt_write", !.existing = existing]]
        /\ UNCHANGED <<extVars, now, remote, local, replicationStates, task, feed, congregation,
                       subscribed, used, writes, syncs>>

\* What the handler writes: INSERT and UPDATE set the document (no comparison of
\* stamps), DELETE removes it.
RtApply(ev, cur, read) ==
    IF ev.eventType = "DELETE"
    THEN (IF cur = read THEN Absent ELSE cur)
    ELSE WriteLocal(cur, read, ev.new)

\* existing.update({$set: doc}), collection.insert(doc) or existing.remove().
RtWrite(d) ==
    LET h == handler[d]
    IN  /\ h.pc = "rt_write"
        /\ local' = [local EXCEPT ![d][h.ev.coll][h.ev.id] = RtApply(h.ev, @, h.existing)]
        /\ handler' = [handler EXCEPT ![d] = IdleHandler]
        /\ UNCHANGED <<extVars, now, remote, replicationStates, task, feed, congregation,
                       subscribed, used, writes, syncs>>

\* POST /api/houses: a row with a generated id, stamped by the server's
\* new Date().toISOString(), is inserted for the caller's tenant.
RemoteInsert(c, cid) ==
    \E id \in GenerateId(c), v \in Vals :
        /\ remote' = [remote EXCEPT ![c][id] = Doc(cid, ClientStamp, v)]
        /\ used' = [used EXCEPT ![c] = @ \cup {id}]
        /\ Broadcast(<<[eventType |-> "INSERT", coll |-> c, id |-> id, cid |-> cid,
                        new |-> Doc(cid, ClientStamp, v)]>>)
        /\ writes < MaxWrites
        /\ writes' = writes + 1
        /\ UNCHANGED <<extVars, now, local, replicationStates, task, handler, congregation,
                       subscribed, syncs>>

\* PUT /api/houses/[id]: a row of the caller's tenant is updated; the BEFORE
\* UPDATE trigger stamps it with NOW().
RemoteUpdate(c, cid) ==
    \E id \in Ids, v \in Vals :
        /\ remote[c][id] # Absent
        /\ remote[c][id].congregation_id = cid
        /\ remote' = [remote EXCEPT ![c][id] = Doc(cid, ServerStamp, v)]
        /\ Broadcast(<<[eventType |-> "UPDATE", coll |-> c, id |-> id, cid |-> cid,
                        new |-> Doc(cid, ServerStamp, v)]>>)
        /\ writes < MaxWrites
        /\ writes' = writes + 1
        /\ UNCHANGED <<extVars, now, local, replicationStates, task, handler, congregation,
                       subscribed, used, syncs>>

\* DELETE /api/houses/[id]: a row of the caller's tenant is deleted.
RemoteDelete(c, cid) ==
    \E id \in Ids :
        /\ remote[c][id] # Absent
        /\ remote[c][id].congregation_id = cid
        /\ remote' = [remote EXCEPT ![c][id] = Absent]
        /\ Broadcast(<<[eventType |-> "DELETE", coll |-> c, id |-> id, cid |-> cid,
                        new |-> Absent]>>)
        /\ writes < MaxWrites
        /\ writes' = writes + 1
        /\ UNCHANGED <<extVars, now, local, replicationStates, task, handler, congregation,
                       subscribed, used, syncs>>

----
\* The steps of the pushes that are under way on the tasks K.
PushStep(K) ==
    \E k \in K :
        \/ PushRead(k)
        \/ PushUpsert(k)
        \/ PushAck(k)

\* The steps of the syncs that are under way on the tasks K: the pull, the
\* passage from the pull to the push, and the push.
SyncStep(K) ==
    \/ \E k \in K :
          \/ PullQuery(k)
          \/ PullFind(k)
          \/ PullWrite(k)
          \/ PushStart(k)
    \/ PushStep(K)

\* The steps of the realtime handlers of the devices D.
RealtimeStep(D) ==
    \E d \in D :
        \/ RtReceive(d)
        \/ RtFind(d)
        \/ RtWrite(d)

\* Device B replicates the houses of tenant c1 by syncCollection, with no
\* realtime channel, while the API routes write to the database.
Next ==
    \/ Tick
    \/ CreateLocal("B", "houses")
    \/ EditLocal("B", "houses")
    \/ StartSyncCollection(<<"B", 1>>, "houses")
    \/ StartPush(<<"B", 1>>, "houses")
    \/ SyncStep({<<"B", 1>>})
    \/ RemoteInsert("houses", "c1")
    \/ RemoteUpdate("houses", "c1")

Spec == Init /\ [][Next]_vars

----
\* Device B works on the houses of tenant c1 and calls pushToSupabase; nothing
\* else writes to the database and nothing is pulled.
NextPush ==
    \/ Tick
    \/ CreateLocal("B", "houses")
    \/ EditLocal("B", "houses")
    \/ StartPush(<<"B", 1>>, "houses")
    \/ PushStep({<<"B", 1>>})

SpecPush == Init /\ [][NextPush]_vars

\* Device B has the realtime channels of tenant c1 open and works on its houses
\* while the API routes insert, update and delete houses of the tenant; no sync runs.
NextRealtime ==
    \/ Tick
    \/ InitializeReplication("B")
    \/ CreateLocal("B", "houses")
    \/ EditLocal("B", "houses")
    \/ RemoteInsert("houses", "c1")
    \/ RemoteUpdate("houses", "c1")
    \/ RemoteDelete("houses", "c1")
    \/ RealtimeStep({"B"})

SpecRealtime == Init /\ [][NextRealtime]_vars

\* Device B replicates the houses of its tenant by syncCollection and by the
\* realtime channel; its user can change tenant; the API routes insert and
\* delete houses of both tenants in the shared database.
NextTenants ==
    \/ SwitchTenant("B")
    \/ InitializeReplication("B")
    \/ CreateLocal("B", "houses")
    \/ StartSyncCollection(<<"B", 1>>, "houses")
    \/ SyncStep({<<"B", 1>>})
    \/ RealtimeStep({"B"})
    \/ \E cid \in Tenants :
          \/ RemoteInsert("houses", cid)
          \/ RemoteDelete("houses", cid)

SpecTenants == Init /\ [][NextTenants]_vars

\* syncCollection while device d works for tenant c1 (on slot 1).
SyncForFirstTenant(d) ==
    /\ congregation[d] = "c1"
    /\ StartSyncCollection(<<d, 1>>, "houses")

\* The user of device d changes from tenant c1 to tenant c2.
SwitchToSecondTenant(d) ==
    /\ congregation[d] = "c1"
    /\ SwitchTenant(d)

\* The first syncCollection device d runs for tenant c2 (on slot 2, which has
\* run nothing before).
FirstSyncForSecondTenant(d) ==
    /\ congregation[d] = "c2"
    /\ task[<<d, 2>>].pc = "idle"
    /\ StartSyncCollection(<<d, 2>>, "houses")

\* Device B replicates the houses of tenant c1, then its user changes to tenant
\* c2 and the device runs its first syncCollection for c2, in the same process;
\* the API routes insert houses of both tenants.
NextCursors ==
    \/ Tick
    \/ CreateLocal("B", "houses")
    \/ \E cid \in Tenants : RemoteInsert("houses", cid)
    \/ SyncForFirstTenant("B")
    \/ SwitchToSecondTenant("B")
    \/ FirstSyncForSecondTenant("B")
    \/ SyncStep({<<"B", 1>>, <<"B", 2>>})

SpecCursors == Init /\ [][NextCursors]_vars

\* A syncAll is started, at most MaxSyncAlls times.
StartSyncAllOnce(k) ==
    /\ syncs < MaxSyncAlls
    /\ StartSyncAll(k)

\* Device B runs syncAll over the three collections of tenant c1; its user adds
\* houses and assignments, the API route inserts houses, and a pull query or an
\* upsert may fail.
NextSyncAll ==
    \/ Tick
    \/ CreateLocal("B", "houses")
    \/ CreateLocal("B", "assignments")
    \/ RemoteInsert("houses", "c1")
    \/ StartSyncAllOnce(<<"B", 1>>)
    \/ SyncStep({<<"B", 1>>})
    \/ PullQueryFails(<<"B", 1>>)
    \/ PushUpsertFails(<<"B", 1>>)
    \/ SyncNext(<<"B", 1>>)

SpecSyncAll == Init /\ [][NextSyncAll]_vars

\* The user adds a document while the device is offline: no sync is under way.
CreateOffline(d, c) ==
    /\ \A k \in Tasks : dev(k) = d => task[k].pc \in {"idle", "done"}
    /\ CreateLocal(d, c)

\* Device B is offline when its user adds houses, and runs syncAll when it is
\* online; nothing fails; the API routes insert houses of the tenant.
NextOffline ==
    \/ Tick
    \/ CreateOffline("B", "houses")
    \/ RemoteInsert("houses", "c1")
    \/ StartSyncAll(<<"B", 1>>)
    \/ SyncStep({<<"B", 1>>})
    \/ SyncNext(<<"B", 1>>)

SpecOffline == Init /\ [][NextOffline]_vars

\* Devices A and B of tenant c1 add and edit houses and replicate them by
\* syncCollection, each at its own pace.
NextDevices ==
    \/ Tick
    \/ CreateLocal("B", "houses")
    \/ \E d \in Devices :
          \/ EditLocal(d, "houses")
          \/ StartSyncCollection(<<d, 1>>, "houses")
          \/ SyncStep({<<d, 1>>})

SpecDevices == Init /\ [][NextDevices]_vars

----
\* The conflict scenario: devices A and B both hold house 1 as device A created
\* and pushed it and device B pulled it, at stamp t0; the cursors are at t0.
D0 == Doc("c1", SubMs, 1)

InitConflict ==
    /\ InitExt
    /\ now = SubMs
    /\ remote = [c \in CollectionNames |->
                   IF c = "houses" THEN [EmptyStore EXCEPT ![1] = D0] ELSE EmptyStore]
    /\ local = [d \in Devices |-> remote]
    /\ replicationStates =
          [d \in Devices |-> [c \in CollectionNames |->
              IF c = "houses" THEN [InitialReplicationState EXCEPT !.lastSync = SubMs]
              ELSE InitialReplicationState]]
    /\ task = [k \in Tasks |-> IdleTask]
    /\ feed = [d \in Devices |-> <<>>]
    /\ handler = [d \in Devices |-> IdleHandler]
    /\ congregation = [d \in Devices |-> "c1"]
    /\ subscribed = [d \in Devices |-> FALSE]
    /\ used = [c \in CollectionNames |-> IF c = "houses" THEN {1} ELSE {}]
    /\ writes = 0
    /\ syncs = 0

\* No sync is under way on any device.
Quiet == \A k \in Tasks : task[k].pc \in {"idle", "done"}

\* B, offline, edits the house at t2 > t0, before A does.
EditB ==
    /\ Quiet
    /\ local["A"]["houses"][1] = D0
    /\ local["B"]["houses"][1] = D0
    /\ ClientStamp > D0.updated_at
    /\ EditLocal("B", "houses")

\* A edits the house at t1 > t2.
EditA ==
    /\ Quiet
    /\ local["A"]["houses"][1] = D0
    /\ local["B"]["houses"][1] # D0
    /\ ClientStamp > local["B"]["houses"][1].updated_at
    /\ EditLocal("A", "houses")

\* A replicates its edit.
SyncA ==
    /\ local["A"]["houses"][1] # D0
    /\ task[<<"A", 1>>].pc = "idle"
    /\ StartSyncCollection(<<"A", 1>>, "houses")

\* B comes back online after A's sync has ended and runs syncCollection.
SyncB ==
    /\ task[<<"A", 1>>].pc = "done"
    /\ task[<<"B", 1>>].pc = "idle"
    /\ StartSyncCollection(<<"B", 1>>, "houses")

NextConflict ==
    \/ Tick
    \/ EditB
    \/ EditA
    \/ SyncA
    \/ SyncB
    \/ SyncStep({<<"A", 1>>, <<"B", 1>>})

SpecConflict == InitConflict /\ [][NextConflict]_vars

----
\* Overlapping syncs: device B holds house 1, which its user added offline, and
\* the remote store holds house 2, which another client inserted earlier;
\* nothing has been replicated to B yet.  The timer of initializeReplication
\* (slot 1) and the manual sync of useSync (slot 2) each call syncAll once;
\* nothing else writes.
OverlapStart ==
    [local |-> [EmptyStore EXCEPT ![1] = Doc("c1", 2 * SubMs, 1)],
     remote |-> [EmptyStore EXCEPT ![2] = Doc("c1", SubMs, 2)],
     lastSync |-> 0]

InitOverlap ==
    /\ InitExt
    /\ now = 2 * SubMs
    /\ remote = [c \in CollectionNames |->
                   IF c = "houses" THEN OverlapStart.remote ELSE EmptyStore]
    /\ local = [d \in Devices |-> [c \in CollectionNames |->
                  IF d = "B" /\ c = "houses" THEN OverlapStart.local
                  ELSE EmptyStore]]
    /\ replicationStates =
          [d \in Devices |-> [c \in CollectionNames |-> InitialReplicationState]]
    /\ task = [k \in Tasks |-> IdleTask]
    /\ feed = [d \in Devices |-> <<>>]
    /\ handler = [d \in Devices |-> IdleHandler]
    /\ congregation = [d \in Devices |-> "c1"]
    /\ subscribed = [d \in Devices |-> FALSE]
    /\ used = [c \in CollectionNames |-> IF c = "houses" THEN {1, 2} ELSE {}]
    /\ writes = 0
    /\ syncs = 0

\* The one syncAll of a slot.
StartSyncAllOf(k) ==
    /\ task[k].pc = "idle"
    /\ StartSyncAll(k)

NextOverlap ==
    \/ Tick
    \/ \E k \in {<<"B", 1>>, <<"B", 2>>} :
          \/ StartSyncAllOf(k)
          \/ SyncNext(k)
    \/ SyncStep({<<"B", 1>>, <<"B", 2>>})

SpecOverlap == InitOverlap /\ [][NextOverlap]_vars

\* pullFromSupabase run without interruption on the stores st.local and
\* st.remote with the cursor st.lastSync: what it leaves.
PullResult(st, cid) ==
    LET ids == PullSelect(st.remote, cid, st.lastSync)
        rows == Rows(st.remote, CHOOSE o \in OrderedByUpdatedAt(st.remote, ids) : TRUE)
        F[n \in 0..Len(rows)] ==
            IF n = 0 THEN st.local
            ELSE LET existing == F[n - 1][rows[n].id]
                 IN  IF existing = Absent \/ ServerIsNewer(rows[n].doc, existing)
                     THEN [F[n - 1] EXCEPT ![rows[n].id] = SetDoc(existing, rows[n].doc)]
                     ELSE F[n - 1]
    IN  [st EXCEPT !.local = F[Len(rows)],
                   !.lastSync = IF rows = <<>> THEN @
                                ELSE rows[Len(rows)].doc.updated_at]

\* pushToSupabase run without interruption, the database clock reading stamp.
PushResult(st, cid, stamp) ==
    LET records == DocsToSync(st.local, cid, st.lastSync)
    IN  IF records = <<>> THEN st
        ELSE [st EXCEPT !.remote = Upsert(@, records, stamp),
                        !.lastSync = PushCursor(records)]

\* syncCollection run without interruption: pull, then push.
SyncCollectionResult(st, cid, stamp) == PushResult(PullResult(st, cid), cid, stamp)

\* The readings the clock can give.
Stamps == SubMs..((MaxTime + 1) * SubMs - 1)

\* What two syncCollection calls leave when the second starts after the first
\* has returned, for the times at which their upserts can run.
SequentialOutcomes(st, cid) ==
    {SyncCollectionResult(SyncCollectionResult(st, cid, s1), cid, s2) :
        s1 \in Stamps, s2 \in Stamps}

----
\* The stores and the cursor one syncCollection of device d works on.
St(d, c) ==
    [local |-> local[d][c], remote |-> remote[c],
     lastSync |-> replicationStates[d][c].lastSync]

\* syncCollection from its call to its return with nothing else running in
\* between: the pull, then the push.
RunSyncCollection(d, c) ==
    LET st == St(d, c)
        p == PullResult(st, congregation[d])
        r == SyncCollectionResult(st, congregation[d], ServerStamp)
        pulled == Cardinality(PullSelect(st.remote, congregation[d], st.lastSync))
        pushed == Len(DocsToSync(p.local, congregation[d], p.lastSync))
    IN  /\ local' = [local EXCEPT ![d][c] = r.local]
        /\ remote' = [remote EXCEPT ![c] = r.remote]
        /\ replicationStates' = [replicationStates EXCEPT ![d][c].lastSync = r.lastSync]
        /\ task' = [task EXCEPT ![<<d, 1>>] =
                      [IdleTask EXCEPT !.pc = "done", !.coll = c,
                                       !.pulled = pulled, !.pushed = pushed,
                                       !.results = <<[coll |-> c, pulled |-> pulled,
                                                      pushed |-> pushed]>>]]
        /\ syncs < MaxSyncs
        /\ syncs' = syncs + 1
        /\ UNCHANGED <<extVars, now, feed, handler, congregation, subscribed, used,
                       writes>>

\* Device B works on the houses of tenant c1 and replicates them by
\* syncCollection calls that nothing interleaves with; the API routes insert
\* and update houses of the tenant between the calls.
NextSequential ==
    \/ Tick
    \/ CreateLocal("B", "houses")
    \/ EditLocal("B", "houses")
    \/ RemoteInsert("houses", "c1")
    \/ RemoteUpdate("houses", "c1")
    \/ RunSyncCollection("B", "houses")

SpecSequential == Init /\ [][NextSequential]_vars

----

\* The constraints of the houses table that the local schema does not have:
\* status must be one of the five house statuses (and coordinates and status
\* not null), while houseSchema takes any string.  The value MaxVal stands for
\* a house whose status is not in the list.
RemoteRejects(doc) == doc.val = MaxVal

\* The upsert of a batch is one statement: it is applied when every record
\* passes the constraints, and fails as a whole when one does not.
PushUpsertChecked(k) ==
    IF \E n \in 1..Len(task[k].rows) : RemoteRejects(task[k].rows[n].doc)
    THEN PushUpsertFails(k)
    ELSE PushUpsert(k)

\* Device B adds and edits houses, some of which the houses table rejects, and
\* calls pushToSupabase.
NextReject ==
    \/ Tick
    \/ CreateLocal("B", "houses")
    \/ EditLocal("B", "houses")
    \/ StartPush(<<"B", 1>>, "houses")
    \/ PushRead(<<"B", 1>>)
    \/ PushUpsertChecked(<<"B", 1>>)
    \/ PushAck(<<"B", 1>>)

SpecReject == Init /\ [][NextReject]_vars

----

\* Device B adds houses and replicates them by syncCollection while the API
\* route inserts houses of the tenant; the pull query or the upsert may return
\* an error.
NextFailures ==
    \/ Tick
    \/ CreateLocal("B", "houses")
    \/ RemoteInsert("houses", "c1")
    \/ StartSyncCollection(<<"B", 1>>, "houses")
    \/ SyncStep({<<"B", 1>>})
    \/ \E err \in RemoteErrors :
          \/ PullQueryError(<<"B", 1>>, err)
          \/ PushUpsertError(<<"B", 1>>, err)

SpecFailures == Init /\ [][NextFailures]_vars

----


\* The teardown returned by initializeReplication, without its clearInterval.
CleanupKeepsInterval(d) ==
    /\ subscribed[d]
    /\ subscribed' = [subscribed EXCEPT ![d] = FALSE]
    /\ feed' = [feed EXCEPT ![d] = <<>>]
    /\ UNCHANGED <<exceptTimer, intervalId, now, remote, local, replicationStates, task, handler,
                   congregation, used, writes, syncs>>

\* The teardown returned by initializeReplication: clearInterval(intervalId) and
\* supabase.removeChannel for every channel it opened; what the channels had not
\* delivered yet is not delivered.  A syncAll or a handler that is under way
\* runs on.
Cleanup(d) ==
    /\ subscribed[d]
    /\ subscribed' = [subscribed EXCEPT ![d] = FALSE]
    /\ intervalId' = [intervalId EXCEPT ![d] = FALSE]
    /\ feed' = [feed EXCEPT ![d] = <<>>]
    /\ UNCHANGED <<exceptTimer, now, remote, local, replicationStates, task, handler,
                   congregation, used, writes, syncs>>

\* A syncInterval period has elapsed: the callback of setInterval calls syncAll
\* (on slot 1 of the device).
TimerFires(d) ==
    /\ intervalId[d]
    /\ StartSyncAll(<<d, 1>>)

\* Device B mounts and unmounts useSync, whose effect calls initializeReplication
\* and whose cleanup is the teardown; the timer fires while it is set; the API
\* routes insert houses of the tenant.
NextTeardown ==
    \/ Tick
    \/ InitializeReplication("B")
    \/ Cleanup("B")
    \/ TimerFires("B")
    \/ SyncStep({<<"B", 1>>})
    \/ SyncNext(<<"B", 1>>)
    \/ RemoteInsert("houses", "c1")
    \/ RealtimeStep({"B"})

SpecTeardown == Init /\ [][NextTeardown]_vars

----
\* handleImport: every parsed row becomes a house document whose address field
\* is the row's address, with the ciphertext beside it when the row is marked
\* isDnc; bulkAddHouses inserts it.
HandleImport(id) ==
    \E address \in Addresses, isDnc \in BOOLEAN :
        /\ houseDocs[id] = NoHouse
        /\ houseDocs' = [houseDocs EXCEPT ![id] =
              [address |-> address,
               status |-> IF isDnc THEN "dnc" ELSE "not-visited",
               is_dnc |-> isDnc,
               dnc_encrypted_address |->
                   IF isDnc THEN encryptDncAddress(address) ELSE "null"]]
        /\ UNCHANGED <<coreVars, exceptDnc, houseRows>>

\* handleStatusChange: updateHouse sets the fields of `updates` and leaves the
\* others; for status dnc the updates carry is_dnc and the ciphertext.
HandleStatusChange(id) ==
    \E status \in HouseStatuses :
        /\ houseDocs[id] # NoHouse
        /\ houseDocs' = [houseDocs EXCEPT ![id] =
              IF status = "dnc"
              THEN [@ EXCEPT !.status = status, !.is_dnc = TRUE,
                             !.dnc_encrypted_address =
                                 encryptDncAddress(houseDocs[id].address)]
              ELSE [@ EXCEPT !.status = status]]
        /\ UNCHANGED <<coreVars, exceptDnc, houseRows>>

\* The record pushToSupabase makes of a document: doc.toJSON() without _rev,
\* _attachments and _meta, so every field of the document as it is.
ToRecord(doc) == doc

\* The sync() that follows an import or a status change: the documents are
\* upserted as records.
PushHouses ==
    /\ \E id \in Ids : houseDocs[id] # NoHouse /\ houseRows[id] # ToRecord(houseDocs[id])
    /\ houseRows' = [id \in Ids |->
                       IF houseDocs[id] # NoHouse THEN ToRecord(houseDocs[id])
                       ELSE houseRows[id]]
    /\ UNCHANGED <<coreVars, exceptDnc, houseDocs>>

\* A publisher imports houses and records visits; each is followed by a sync.
NextDnc ==
    \/ \E id \in Ids : HandleImport(id)
    \/ \E id \in Ids : HandleStatusChange(id)
    \/ PushHouses

SpecDnc == Init /\ [][NextDnc]_vars

----
\* updateTerritory / updateAssignment: doc.update({$set: updates}).  The
\* document's updated_at changes only when the caller's updates carry one (as
\* handleReturn's do).
UpdateDoc(d, c) ==
    \E id \in Ids, v \in Vals, stamped \in BOOLEAN :
        /\ local[d][c][id] # Absent
        /\ local' = [local EXCEPT ![d][c][id] =
                        [@ EXCEPT !.val = v,
                                  !.updated_at = IF stamped THEN ClientStamp ELSE @]]
        /\ writes < MaxWrites
        /\ writes' = writes + 1
        /\ UNCHANGED <<extVars, now, remote, replicationStates, task, feed, handler,
                       congregation, subscribed, used, syncs>>

\* The user of device B adds and edits territories, houses and assignments; no
\* replication runs.
NextMutate ==
    \/ Tick
    \/ \E c \in CollectionNames : CreateLocal("B", c)
    \/ EditLocal("B", "houses")
    \/ UpdateDoc("B", "territories")
    \/ UpdateDoc("B", "assignments")

SpecMutate == Init /\ [][NextMutate]_vars

----
\* generateId() / gen_random_uuid(): an id that no row and no document has.
FreshAssignmentId ==
    {id \in AssignmentIds :
        /\ assignments[id].status = "unused"
        /\ \A d \in Devices : pendingAssignments[d][id] = "none"
        /\ \A other \in AssignmentIds :
              (assignments[other].status = "unused"
               /\ \A d \in Devices : pendingAssignments[d][other] = "none") => id <= other}

\* POST /api/assignments, first query: no active assignment of the territory is
\* found (otherwise the route answers 409 and changes nothing).
PostCheck(r, t) ==
    /\ request[r].pc = "idle"
    /\ ActiveAssignments(assignments, t) = {}
    /\ request' = [request EXCEPT ![r] = [pc |-> "post_insert", territory_id |-> t]]
    /\ UNCHANGED <<coreVars, exceptCheckout, territoryStatus, assignments,
                   pendingAssignments>>

\* POST /api/assignments: the assignment row is inserted with status active.
PostInsert(r) ==
    /\ request[r].pc = "post_insert"
    /\ \E id \in FreshAssignmentId :
          assignments' = [assignments EXCEPT ![id] =
              [territory_id |-> request[r].territory_id, status |-> "active"]]
    /\ request' = [request EXCEPT ![r].pc = "post_update"]
    /\ UNCHANGED <<coreVars, exceptCheckout, territoryStatus, pendingAssignments>>

\* POST /api/assignments: the territory row is set to out.
PostUpdateTerritory(r) ==
    /\ request[r].pc = "post_update"
    /\ territoryStatus' = [territoryStatus EXCEPT ![request[r].territory_id] = "out"]
    /\ request' = [request EXCEPT ![r] = IdleRequest]
    /\ UNCHANGED <<coreVars, exceptCheckout, assignments, pendingAssignments>>

\* checkout_territory: the EXISTS query of the function finds no active
\* assignment among the committed rows (otherwise it raises).
CheckoutCheck(r, t) ==
    /\ request[r].pc = "idle"
    /\ ActiveAssignments(assignments, t) = {}
    /\ request' = [request EXCEPT ![r] = [pc |-> "rpc_write", territory_id |-> t]]
    /\ UNCHANGED <<coreVars, exceptCheckout, territoryStatus, assignments,
                   pendingAssignments>>

\* checkout_territory: the INSERT and the UPDATE of the function commit together.
CheckoutCommit(r) ==
    /\ request[r].pc = "rpc_write"
    /\ \E id \in FreshAssignmentId :
          assignments' = [assignments EXCEPT ![id] =
              [territory_id |-> request[r].territory_id, status |-> "active"]]
    /\ territoryStatus' = [territoryStatus EXCEPT ![request[r].territory_id] = "out"]
    /\ request' = [request EXCEPT ![r] = IdleRequest]
    /\ UNCHANGED <<coreVars, exceptCheckout, pendingAssignments>>

\* handleAssign: addAssignment inserts an active assignment of the selected
\* territory into the local store.
HandleAssign(d, t) ==
    /\ \E id \in FreshAssignmentId :
          pendingAssignments' = [pendingAssignments EXCEPT ![d][id] = t]
    /\ UNCHANGED <<coreVars, exceptCheckout, territoryStatus, assignments, request>>

\* The sync() of handleAssign: the push upserts the device's new assignments.
PushAssignments(d) ==
    /\ \E id \in AssignmentIds : pendingAssignments[d][id] # "none"
    /\ assignments' = [id \in AssignmentIds |->
          IF pendingAssignments[d][id] # "none"
          THEN [territory_id |-> pendingAssignments[d][id], status |-> "active"]
          ELSE assignments[id]]
    /\ pendingAssignments' = [pendingAssignments EXCEPT ![d] =
                                 [id \in AssignmentIds |-> "none"]]
    /\ UNCHANGED <<coreVars, exceptCheckout, territoryStatus, request>>

\* PUT /api/assignments/[id]: the row takes body.status; for returned the
\* territory row is set to in-stock.
PutAssignment(id) ==
    \E status \in {"active", "returned"} :
        /\ assignments[id].status \in {"active", "returned"}
        /\ assignments' = [assignments EXCEPT ![id].status = status]
        /\ territoryStatus' =
              IF status = "returned"
              THEN [territoryStatus EXCEPT ![assignments[id].territory_id] = "in-stock"]
              ELSE territoryStatus
        /\ UNCHANGED <<coreVars, exceptCheckout, pendingAssignments, request>>

\* DELETE /api/assignments/[id]: the territory of an active assignment is set
\* to in-stock, and the row is deleted.
DeleteAssignment(id) ==
    /\ assignments[id].status \in {"active", "returned"}
    /\ territoryStatus' =
          IF assignments[id].status = "active"
          THEN [territoryStatus EXCEPT ![assignments[id].territory_id] = "in-stock"]
          ELSE territoryStatus
    /\ assignments' = [assignments EXCEPT ![id] =
                          [territory_id |-> "none", status |-> "deleted"]]
    /\ UNCHANGED <<coreVars, exceptCheckout, pendingAssignments, request>>

\* PUT /api/territories/[id]: the row takes body.status.
PutTerritory(t) ==
    \E status \in {"in-stock", "out"} :
        /\ territoryStatus[t] # status
        /\ territoryStatus' = [territoryStatus EXCEPT ![t] = status]
        /\ UNCHANGED <<coreVars, exceptCheckout, assignments, pendingAssignments,
                       request>>

\* Territories are checked out through the API route, through
\* checkout_territory and on the devices, and returned through the API.
NextCheckout ==
    \/ \E r \in Clients, t \in Territories : PostCheck(r, t) \/ CheckoutCheck(r, t)
    \/ \E r \in Clients : PostInsert(r) \/ PostUpdateTerritory(r) \/ CheckoutCommit(r)
    \/ \E d \in Devices, t \in Territories : HandleAssign(d, t)
    \/ \E d \in Devices : PushAssignments(d)
    \/ \E id \in AssignmentIds : PutAssignment(id) \/ DeleteAssignment(id)
    \/ \E t \in Territories : PutTerritory(t)

SpecCheckout == Init /\ [][NextCheckout]_vars

----
\* initDatabase(t): the module's promise if there is one, else a new database
\* named after the tenant; the hook keeps what it gets (setDb).
InitDatabase(t) ==
    /\ dbPromise = NoDb => opens < MaxOpens
    /\ dbPromise' = IF dbPromise # NoDb THEN dbPromise
                    ELSE [name |-> t, instance |-> opens + 1]
    /\ opens' = IF dbPromise # NoDb THEN opens ELSE opens + 1
    /\ db' = dbPromise'
    /\ lastCall' = [op |-> "init", tenant |-> t, docs |-> idb[dbPromise'.name]]
    /\ UNCHANGED <<coreVars, exceptDb, idb>>

\* A document is inserted through the instance the hook holds.
AddDocument(id) ==
    /\ db # NoDb
    /\ db = dbPromise
    /\ id \notin idb[db.name]
    /\ idb' = [idb EXCEPT ![db.name] = @ \cup {id}]
    /\ lastCall' = [op |-> "write", tenant |-> db.name, docs |-> idb'[db.name]]
    /\ UNCHANGED <<coreVars, exceptDb, dbPromise, db, opens>>

\* closeDatabase, called by the hook's close or reset: with a destroy method the
\* instance is closed and the promise dropped; without one the call throws at
\* db.destroy() and nothing after it runs.  The stored documents stay.
CloseAs(op) ==
    /\ dbPromise # NoDb
    /\ \E destroy \in BOOLEAN :
          /\ dbPromise' = IF destroy THEN NoDb ELSE dbPromise
          /\ db' = IF destroy THEN NoDb ELSE db
    /\ lastCall' = [op |-> op, tenant |-> dbPromise.name, docs |-> idb[dbPromise.name]]
    /\ UNCHANGED <<coreVars, exceptDb, idb, opens>>

CloseDatabase == CloseAs("close")

\* resetDatabase: closeDatabase, then dbPromise = null once more.
ResetDatabase == CloseAs("reset")

NextDatabase ==
    \/ \E t \in Tenants : InitDatabase(t)
    \/ \E id \in Ids : AddDocument(id)
    \/ CloseDatabase
    \/ ResetDatabase

SpecDatabase == Init /\ [][NextDatabase]_vars

----
\* sync() of useSync up to its await: setIsSyncing(true), setError(null), and
\* syncAll is called (on slot 2 of the device).
Sync(d) ==
    /\ ~useSync[d].calling
    /\ BeginSyncAll(<<d, 2>>)
    /\ useSync' = [useSync EXCEPT ![d] =
                      [@ EXCEPT !.isSyncing = TRUE, !.error = "null", !.calling = TRUE]]
    /\ UNCHANGED exceptHook

\* syncAll has returned its results: setLastSync(new Date().toISOString()),
\* and the finally block does setIsSyncing(false).  syncAll does not throw, so
\* the catch block with setError is not entered.
SyncReturns(d) ==
    /\ useSync[d].calling
    /\ task[<<d, 2>>].pc = "done"
    /\ useSync' = [useSync EXCEPT ![d] =
                      [@ EXCEPT !.isSyncing = FALSE, !.lastSync = ClientStamp,
                                !.calling = FALSE]]
    /\ UNCHANGED <<coreVars, exceptHook>>

\* The one sync() of the user.
SyncOnce(d) ==
    /\ syncs < MaxSyncAlls
    /\ Sync(d)

\* The user of device B presses sync once; a pull query or an upsert of the
\* syncAll may fail.
NextManualSync ==
    \/ Tick
    \/ SyncOnce("B")
    \/ SyncStep({<<"B", 2>>})
    \/ PullQueryFails(<<"B", 2>>)
    \/ PushUpsertFails(<<"B", 2>>)
    \/ SyncNext(<<"B", 2>>)
    \/ SyncReturns("B")

SpecManualSync == InitOverlap /\ [][NextManualSync]_vars

\* Device B has useSync mounted: the timer of initializeReplication calls
\* syncAll, and the user presses sync.
NextIsSyncing ==
    \/ InitializeReplication("B")
    \/ TimerFires("B")
    \/ Sync("B")
    \/ SyncStep({<<"B", 1>>, <<"B", 2>>})
    \/ SyncNext(<<"B", 1>>)
    \/ SyncNext(<<"B", 2>>)
    \/ SyncReturns("B")

SpecIsSyncing == InitOverlap /\ [][NextIsSyncing]_vars

----
\* The handler of initializeReplication up to its first await, for a payload
\* that passed isValidPayload: reading .id of null or undefined throws outside
\* the try blocks, and the promise of the async handler, which the channel
\* callback does not await, is rejected; an id that is not a string is logged.
HandlerStart(q) ==
    LET part == IF q.eventType = "DELETE" THEN q.old ELSE q.new
        id == IF q.eventType = "DELETE" THEN q.oldId ELSE q.newId
    IN  IF part # "object" THEN [pc |-> "idle", payload |-> q, outcome |-> "rejected"]
        ELSE IF id \notin DocIds THEN [pc |-> "idle", payload |-> q, outcome |-> "dropped"]
        ELSE [pc |-> "rt_find", payload |-> q, outcome |-> "none"]

\* The callback subscribeToChanges gives to the channel: an invalid payload is
\* logged and dropped, a valid one is handed to the handler.
OnPayload(q) ==
    /\ subscriber.pc = "idle"
    /\ subscriber' = IF isValidPayload(q) THEN HandlerStart(q)
                     ELSE [pc |-> "idle", payload |-> q, outcome |-> "dropped"]
    /\ UNCHANGED <<coreVars, exceptPayload, docIds>>

\* The rest of the handler: findOne, then update or insert, or remove.
HandlerWrite ==
    LET q == subscriber.payload
    IN  /\ subscriber.pc = "rt_find"
        /\ docIds' = IF q.eventType = "DELETE" THEN docIds \ {q.oldId}
                     ELSE docIds \cup {q.newId}
        /\ subscriber' = [subscriber EXCEPT !.pc = "idle", !.outcome = "applied"]
        /\ UNCHANGED <<coreVars, exceptPayload>>

\* A channel delivers payloads of any shape to its subscriber.
NextPayload ==
    \/ \E q \in Payloads : OnPayload(q)
    \/ HandlerWrite

SpecPayload == Init /\ [][NextPayload]_vars

----
\* handleDelete up to the end of deleteTerritory: setDeletingId(id), and the
\* document is removed from the local store (findOne, then doc.remove()).
HandleDelete(d, id) ==
    /\ deletingId[d] = 0
    /\ \A k \in Tasks : dev(k) = d => task[k].pc \in {"idle", "done"}
    /\ task[<<d, 2>>].pc = "idle"
    /\ local[d]["territories"][id] # Absent
    /\ deletingId' = [deletingId EXCEPT ![d] = id]
    /\ local' = [local EXCEPT ![d]["territories"][id] = Absent]
    /\ UNCHANGED <<exceptDelete, hookVars, now, remote, replicationStates, task, feed,
                   handler, congregation, subscribed, used, writes, syncs>>

\* handleDelete goes on to `await sync()`.
DeleteSync(d) ==
    /\ deletingId[d] # 0
    /\ task[<<d, 2>>].pc = "idle"
    /\ Sync(d)

\* sync() has returned: the finally block does setDeletingId(null).
HandleDeleteEnds(d) ==
    /\ deletingId[d] # 0
    /\ task[<<d, 2>>].pc = "done"
    /\ ~useSync[d].calling
    /\ deletingId' = [deletingId EXCEPT ![d] = 0]
    /\ UNCHANGED <<coreVars, exceptDelete, hookVars>>

\* A syncAll before anything is deleted.
SyncBeforeDelete(d) ==
    /\ deletingId[d] = 0
    /\ task[<<d, 2>>].pc = "idle"
    /\ StartSyncAll(<<d, 1>>)

\* Device B adds territories and replicates them, the API route updates
\* territories of the tenant, and B's user deletes a territory on the
\* territories page, which syncs afterwards.
NextDelete ==
    \/ Tick
    \/ CreateLocal("B", "territories")
    \/ RemoteUpdate("territories", "c1")
    \/ SyncBeforeDelete("B")
    \/ SyncStep({<<"B", 1>>, <<"B", 2>>})
    \/ SyncNext(<<"B", 1>>)
    \/ SyncNext(<<"B", 2>>)
    \/ \E id \in Ids : HandleDelete("B", id)
    \/ DeleteSync("B")
    \/ SyncReturns("B")
    \/ HandleDeleteEnds("B")

SpecDelete == Init /\ [][NextDelete]_vars

----
\* What a step does to the tasks.

\* The step ends a pull of task k.
PullCompletes(k) ==
    /\ task[k].pc \in {"pull_query", "pull_find", "pull_write"}
    /\ task'[k].pc = "push_start"

\* The step ends the processing of one returned row by task k.
RowDone(k) ==
    /\ task[k].pc \in {"pull_find", "pull_write"}
    /\ task'[k].pc # "pull_write"
    /\ task'[k] # task[k]

\* The remote document doc of id is the version the finished pull of task t
\* worked from: the row its query returned, or a row its cursor filtered out.
SeenByPull(t, id, doc) ==
    \/ \E n \in 1..Len(t.rows) : t.rows[n] = Row(id, doc)
    \/ t.since # 0 /\ doc.updated_at <= t.since

\* C1 as stated: when pullFromSupabase completes, every document of the tenant
\* that is present locally and remotely with different updated_at is locally the
\* version with the greater updated_at (so the remote stamp is not the greater
\* one), and a row whose stamp equals the local one leaves the local copy as it
\* was.  Stamps are compared as the code compares them, to the millisecond.
C1_NewerWinsPull ==
    [][\A k \in Tasks :
          /\ PullCompletes(k) =>
                \A id \in Ids :
                    LET L == local'[dev(k)][task[k].coll][id]
                        R == remote'[task[k].coll][id]
                    IN  (/\ L # Absent
                         /\ R # Absent
                         /\ R.congregation_id = congregation[dev(k)]
                         /\ SeenByPull(task'[k], id, R))
                        => getTime(L.updated_at) >= getTime(R.updated_at)
          /\ RowDone(k) =>
                LET row == task[k].rows[task[k].i]
                    L == local[dev(k)][task[k].coll][row.id]
                IN  (L # Absent /\ getTime(L.updated_at) = getTime(row.doc.updated_at))
                    => local'[dev(k)][task[k].coll][row.id] = L]_vars

\* The step is the upsert of task k.
Upserts(k) ==
    /\ task[k].pc = "push_upsert"
    /\ task'[k].pc = "push_ack"

\* C9 as stated: when a push sends a document that an earlier push of the same
\* device already stored and that has not changed locally since (the remote
\* record is the sent record), the remote record after this second push is the
\* record the first push left. That the store holds one record per id is the
\* primary key of the table, which the model has by keying the store on id.
C9_UpsertIdempotent ==
    [][\A k \in Tasks :
          Upserts(k) =>
             \A n \in 1..Len(task[k].rows) :
                LET r == task[k].rows[n]
                IN  remote[task[k].coll][r.id] = r.doc
                    => remote'[task[k].coll][r.id] = r.doc]_vars

\* The step ends the handling of an event by the realtime handler of device d.
Handled(d) ==
    /\ handler[d].pc \in {"rt_find", "rt_write"}
    /\ handler'[d].pc = "idle"

\* C4 as stated: when the realtime handler has handled an INSERT or UPDATE
\* event, the local copy is the event's document if there was none or if the
\* event's updated_at is strictly greater than the local copy's, and is the
\* local copy as it was otherwise.
C4_RealtimeNewerWins ==
    [][\A d \in Devices :
          (Handled(d) /\ handler[d].ev.eventType \in {"INSERT", "UPDATE"}) =>
             LET ev == handler[d].ev
                 L == local[d][ev.coll][ev.id]
             IN  local'[d][ev.coll][ev.id] =
                    IF L = Absent \/ ev.new.updated_at > L.updated_at
                    THEN ev.new ELSE L]_vars

\* C5 as stated: when the realtime handler has handled a DELETE event for id X,
\* the local store has no document X, whatever the updated_at of the copy it
\* had, and every other document is as it was.
C5_DeleteAlwaysWins ==
    [][\A d \in Devices :
          (Handled(d) /\ handler[d].ev.eventType = "DELETE") =>
             LET ev == handler[d].ev
             IN  local'[d][ev.coll] = [local[d][ev.coll] EXCEPT ![ev.id] = Absent]]_vars

\* A document is of tenant cid, or there is none.
OfTenant(doc, cid) == doc = Absent \/ doc.congregation_id = cid

ResultCollections(results) == [n \in 1..Len(results) |-> results[n].coll]

\* C7: a pull or a push that throws inside syncAll ends that collection only:
\* the loop records {pulled: 0, pushed: 0} for it and starts syncCollection for
\* the next collection, and when syncAll returns it has not thrown and its
\* result has an entry for each of the three collections.
C7_PartialFailureIsolation ==
    [][\A k \in Tasks :
          /\ (task'[k].all /\ task'[k].thrown) => task'[k].pc = "coll_end"
          /\ (task[k].pc = "coll_end" /\ task'[k] # task[k]) =>
                LET t == task[k]
                IN  /\ t.thrown =>
                          task'[k].results =
                             Append(t.results, [coll |-> t.coll, pulled |-> 0, pushed |-> 0])
                    /\ IF t.todo # <<>>
                       THEN /\ task'[k].pc = "pull_query"
                            /\ task'[k].coll = Head(t.todo)
                            /\ task'[k].todo = Tail(t.todo)
                       ELSE /\ task'[k].pc = "done"
                            /\ ~task'[k].thrown
                            /\ ResultCollections(task'[k].results) = SyncOrder]_vars

\* A syncAll has returned in which a collection failed and a later collection
\* was pushed.
C7_Witness ==
    \E k \in Tasks :
        /\ task[k].all
        /\ task[k].pc = "done"
        /\ \E n, m \in 1..Len(task[k].results) :
              /\ n < m
              /\ replicationStates[dev(k)][task[k].results[n].coll].error # "none"
              /\ task[k].results[n].pulled = 0
              /\ task[k].results[n].pushed = 0
              /\ task[k].results[m].pushed > 0

\* The step is the return of the syncAll of task k.
SyncAllReturns(k) ==
    /\ task[k].pc = "coll_end"
    /\ task'[k].pc = "done"

\* C3 as stated: when a syncAll in which no collection failed returns, every
\* document of the tenant that was added locally while the device was offline
\* has a remote record with the same id and the same fields, and the cursor of
\* its collection is at or past its updated_at.
C3_OfflineCreateThenSync ==
    [][\A k \in Tasks :
          SyncAllReturns(k) =>
             \A c \in CollectionNames, id \in Ids :
                LET D == local[dev(k)][c][id]
                IN  (D # Absent /\ D.congregation_id = congregation[dev(k)]) =>
                       /\ remote'[c][id] = D
                       /\ replicationStates'[dev(k)][c].lastSync >= D.updated_at]_vars

\* C2 as stated: whenever the upsert of a push replaces a remote record, the
\* document it sends for that id has an updated_at that is not smaller than the
\* updated_at of the record it replaces.  Stamps are compared to the millisecond,
\* the resolution of the stamps the devices write.
C2_NoOlderOverwrite ==
    [][\A k \in Tasks :
          Upserts(k) =>
             \A n \in 1..Len(task[k].rows) :
                LET r == task[k].rows[n]
                    R == remote[task[k].coll][r.id]
                IN  R # Absent =>
                       getTime(r.doc.updated_at) >= getTime(R.updated_at)]_vars

\* The step ends a syncCollection of task k that was called on its own.
SyncCollectionReturns(k) ==
    /\ task[k].pc \in {"push_read", "push_ack"}
    /\ task'[k].pc = "done"

C8_OverlapEqualsSequential ==
    (task[<<"B", 1>>].pc = "done" /\ task[<<"B", 2>>].pc = "done") =>
        \E out \in SequentialOutcomes(OverlapStart, "c1") :
            /\ local["B"]["houses"] = out.local
            /\ remote["houses"] = out.remote


\* The step starts a syncAll on task k.
SyncAllStarts(k) ==
    /\ task[k].pc \in {"idle", "done"}
    /\ task'[k].pc = "pull_query"
    /\ task'[k].all

\* C11: once the teardown has been called the timer and the channels of the
\* device are both gone (until initializeReplication is called again): no
\* timer-driven syncAll starts, however much time passes, and no channel
\* delivers an event to the device.
C11_TeardownStopsReplication ==
    [][\A d \in Devices :
          (~subscribed[d] \/ ~intervalId[d]) =>
             /\ ~subscribed[d]
             /\ ~intervalId[d]
             /\ ~SyncAllStarts(<<d, 1>>)
             /\ feed'[d] = <<>>]_vars

\* The timer has fired and its syncAll has returned, the teardown has been
\* called since, and two more milliseconds have passed.
C11_Witness ==
    /\ task[<<"B", 1>>].pc = "done"
    /\ ~intervalId["B"]
    /\ ~subscribed["B"]
    /\ local["B"]["houses"][1] # Absent
    /\ now >= 3 * SubMs


\* C12 as stated: no house row written by a push has is_dnc = true together
\* with a plaintext address in its address field.
C12_DncAddressNotPlaintext ==
    \A id \in Ids :
        houseRows[id].is_dnc => houseRows[id].address \notin Addresses


\* C13 as stated: whenever a local mutation changes a document, the document's
\* updated_at becomes the time of the mutation and is strictly greater than it
\* was.  Only mutations made in a later millisecond than the document's stamp
\* are looked at, so that two stamps of one millisecond do not count.
C13_MutationRefreshesUpdatedAt ==
    [][\A c \in CollectionNames, id \in Ids :
          LET before == local["B"][c][id]
              after == local'["B"][c][id]
          IN  (/\ before # Absent
               /\ after # before
               /\ getTime(now) > getTime(before.updated_at)) =>
                 /\ after.updated_at = ClientStamp
                 /\ after.updated_at > before.updated_at]_vars


\* C14 as stated: no territory ever has more than one assignment row with
\* status active.
C14_OneActiveAssignment ==
    \A t \in Territories : Cardinality(ActiveAssignments(assignments, t)) <= 1

\* The step returns an active assignment of territory t.
ReturnsAssignment(t) ==
    \E id \in ActiveAssignments(assignments, t) : assignments'[id].status = "returned"

\* C15 as stated: a territory with status out is referenced by exactly one
\* active assignment, and its status goes from out to in-stock only in a step
\* that returns its assignment.
C15_TerritoryStatusConsistent ==
    [][\A t \in Territories :
          /\ territoryStatus[t] = "out" =>
                Cardinality(ActiveAssignments(assignments, t)) = 1
          /\ (territoryStatus[t] = "out" /\ territoryStatus'[t] = "in-stock") =>
                ReturnsAssignment(t)]_vars


\* C16 as stated: initDatabase(t) with a database open for t returns that same
\* instance, and initDatabase(t) always returns a store named after t, which
\* holds the documents of t only.
C16_StorePerTenant ==
    [][lastCall'.op = "init" /\ lastCall' # lastCall =>
          /\ dbPromise.name = lastCall'.tenant => db' = dbPromise
          /\ db'.name = lastCall'.tenant
          /\ lastCall'.docs = idb[lastCall'.tenant]]_vars

\* C17 as stated: initDatabase(t) right after closeDatabase returns the documents
\* stored at the close, and right after resetDatabase returns none.
C17_CloseKeepsResetDiscards ==
    [][lastCall'.op = "init" /\ lastCall'.tenant = lastCall.tenant =>
          /\ lastCall.op = "close" => lastCall'.docs = lastCall.docs
          /\ lastCall.op = "reset" => lastCall'.docs = {}]_vars


\* The collections of device d whose replication state holds an error.
FailedCollections(d) ==
    {c \in CollectionNames : replicationStates[d][c].error # "none"}

\* C18 as stated: when the sync() of useSync ends after the pull or the push of
\* a collection failed, the hook's error holds a message and lastSync is what it
\* was before.
C18_FailureSurfaced ==
    [][\A d \in Devices :
          (useSync[d].calling /\ ~useSync'[d].calling /\ FailedCollections(d) # {}) =>
             /\ useSync'[d].error # "null"
             /\ useSync'[d].lastSync = useSync[d].lastSync]_vars

\* A syncAll of device d is in flight: a task of the device is inside syncAll,
\* or sync() has not run its finally block yet.
InFlight(d) ==
    \/ useSync[d].calling
    \/ \E k \in Tasks : dev(k) = d /\ task[k].all /\ task[k].pc \notin {"idle", "done"}

\* C19 as stated: isSyncing is true exactly while a syncAll of the device is in
\* flight, whoever started it.
C19_IsSyncingReflectsInFlight ==
    \A d \in Devices : useSync[d].isSyncing <=> InFlight(d)


\* A malformed payload: not an object, an unknown eventType, or the record the
\* event is about (new for INSERT and UPDATE, old for DELETE) missing, null, or
\* without a string id.
Malformed(q) ==
    \/ q.kind # "object"
    \/ q.eventType \notin {"INSERT", "UPDATE", "DELETE"}
    \/ q.eventType \in {"INSERT", "UPDATE"} /\ (q.new # "object" \/ q.newId \notin DocIds)
    \/ q.eventType = "DELETE" /\ (q.old # "object" \/ q.oldId \notin DocIds)

\* C20 as stated: the subscriber drops a malformed payload: the documents stay
\* as they are and no exception or rejected promise escapes.
C20_MalformedPayloadDropped ==
    [][(subscriber.pc = "idle" /\ subscriber' # subscriber
        /\ Malformed(subscriber'.payload)) =>
          /\ subscriber'.pc = "idle"
          /\ subscriber'.outcome = "dropped"
          /\ docIds' = docIds]_vars

\* The steps of one syncAll, numbered in the order stated: the pull of the
\* n-th collection is step 2n - 1 and its push step 2n.
PullPcs == {"pull_query", "pull_find", "pull_write"}

PushPcs == {"push_start", "push_read", "push_upsert", "push_ack"}

CollectionIndex(c) ==
    IF c = "territories" THEN 1 ELSE IF c = "houses" THEN 2 ELSE 3

StepIndex(t) ==
    IF t.pc \in PullPcs THEN 2 * CollectionIndex(t.coll) - 1
    ELSE IF t.pc \in PushPcs THEN 2 * CollectionIndex(t.coll)
    ELSE 0

\* C21: inside one syncAll the steps run in the order territories pull,
\* territories push, houses pull, houses push, assignments pull, assignments
\* push: a push starts only from the completed pull of the same collection, a
\* pull only after the previous collection has ended (returned or thrown), the
\* first pull is that of the territories, and syncAll returns only after the
\* assignments have ended.
C21_StepOrder ==
    [][\A k \in Tasks :
          LET t == task[k]
              u == task'[k]
          IN  (u.all /\ u # t) =>
                /\ (u.pc \in PushPcs /\ t.pc \notin PushPcs) =>
                      /\ t.pc \in PullPcs
                      /\ u.coll = t.coll
                /\ (u.pc \in PushPcs /\ t.pc \in PushPcs) => u.coll = t.coll
                /\ (u.pc \in PullPcs /\ t.pc \in PullPcs) => u.coll = t.coll
                /\ (u.pc \in PullPcs /\ t.pc \notin PullPcs) =>
                      \/ t.pc \in {"idle", "done"} /\ StepIndex(u) = 1
                      \/ t.pc = "coll_end" /\ t.all
                           /\ CollectionIndex(u.coll) = CollectionIndex(t.coll) + 1
                /\ u.pc = "coll_end" => t.pc \in PullPcs \cup PushPcs /\ u.coll = t.coll
                /\ u.pc = "done" => t.pc = "coll_end" /\ CollectionIndex(t.coll) = 3]_vars

\* A syncAll has returned after pulling and pushing houses.
C21_Witness ==
    \E k \in Tasks :
        /\ task[k].all
        /\ task[k].pc = "done"
        /\ Len(task[k].results) = 3
        /\ \E n \in 1..3 : task[k].results[n].pulled > 0 /\ task[k].results[n].pushed > 0

\* The ids of the records of a batch.
BatchIds(records) == {records[n].id : n \in 1..Len(records)}

\* C22: in a syncCollection that runs without interleaving, the batch of the
\* push holds no document that the pull has just inserted or overwritten in the
\* local store.
C22_PulledNotPushedBack ==
    [][syncs' = syncs + 1 =>
          LET st == St("B", "houses")
              p == PullResult(st, congregation["B"])
              written == {id \in Ids : p.local[id] # st.local[id]}
              batch == DocsToSync(p.local, congregation["B"], p.lastSync)
          IN  /\ local'["B"]["houses"] = p.local
              /\ BatchIds(batch) \cap written = {}
              /\ \A id \in written : remote'["houses"][id] = remote["houses"][id]]_vars

\* The first syncCollection of device B has returned: it pulled a house, which is
\* now in the local store, and pushed another.
C22_Witness ==
    /\ syncs = 1
    /\ task[<<"B", 1>>].pc = "done"
    /\ task[<<"B", 1>>].pulled > 0
    /\ task[<<"B", 1>>].pushed > 0
    /\ \A id \in Ids :
          /\ local["B"]["houses"][id] # Absent
          /\ local["B"]["houses"][id] = remote["houses"][id]

\* The greatest updated_at among the records of a batch.
MaxUpdatedAt(records) ==
    CHOOSE u \in {records[n].doc.updated_at : n \in 1..Len(records)} :
        \A n \in 1..Len(records) : records[n].doc.updated_at <= u

\* C23 as stated: when a push whose upsert succeeded ends, the cursor of the
\* collection is the maximum updated_at among the documents it pushed.
C23_PushCursorIsMax ==
    [][\A k \in Tasks :
          (task[k].pc = "push_ack" /\ task'[k].pc # "push_ack") =>
             replicationStates'[dev(k)][task[k].coll].lastSync
                = MaxUpdatedAt(task[k].rows)]_vars

\* C24 as stated, for the last document of a pull: when a pull ends by
\* discarding the last document of its query because the local copy is newer,
\* the count it returns is less than the number of documents the query returned.
C24_PullCountsWritten ==
    [][\A k \in Tasks :
          (/\ task[k].pc = "pull_find"
           /\ task'[k].pc = "push_start"
           /\ ServerIsOlder(task[k].rows[task[k].i].doc,
                            local[dev(k)][task[k].coll][task[k].rows[task[k].i].id])) =>
             task'[k].pulled < Len(task[k].rows)]_vars

\* C25 as stated: when a push has sent its batch, every document of the batch
\* that the remote store does not reject is in the remote store, whether or not
\* other documents of the batch are rejected.
C25_PartialRejectionPerDocument ==
    [][\A k \in Tasks :
          (task[k].pc = "push_upsert" /\ task'[k].pc # "push_upsert") =>
             \A n \in 1..Len(task[k].rows) :
                LET r == task[k].rows[n]
                IN  ~RemoteRejects(r.doc) =>
                       /\ remote'[task[k].coll][r.id] # Absent
                       /\ remote'[task[k].coll][r.id].val = r.doc.val]_vars

\* C26 as stated: when the query of a pull or the upsert of a push returns an
\* error, the call throws, the cursor of the collection and the documents of
\* both stores are as before, isActive is false, and the replication state
\* holds the message of the error.
C26_FailureLeavesStateConsistent ==
    [][\A k \in Tasks :
          (task[k].pc \in {"pull_query", "push_upsert"} /\ task'[k].thrown) =>
             LET d == dev(k)
                 c == task[k].coll
             IN  /\ replicationStates'[d][c].lastSync = replicationStates[d][c].lastSync
                 /\ local' = local
                 /\ remote' = remote
                 /\ ~replicationStates'[d][c].isActive
                 /\ replicationStates'[d][c].error
                       \in {err.message : err \in RemoteErrors}]_vars

\* C27: pull and push replicate no delete.  No step of a push removes a record
\* from the remote store; a document leaves a local store only by the user's
\* delete, never in a step of a pull; and a pull that finds no local document
\* for a record its query returned inserts the record.
C27_DeletesNotReplicated ==
    [][\A c \in CollectionNames, id \in Ids :
          /\ remote[c][id] # Absent => remote'[c][id] # Absent
          /\ \A d \in Devices :
                (local[d][c][id] # Absent /\ local'[d][c][id] = Absent) =>
                   /\ task' = task
                   /\ deletingId'[d] = id
          /\ \A k \in Tasks :
                LET t == task[k]
                IN  (t.coll = c /\ t.i > 0 /\ t.i <= Len(t.rows)
                     /\ t.rows[t.i].id = id /\ local[dev(k)][c][id] = Absent) =>
                       /\ (t.pc = "pull_find" /\ task'[k] # t) => task'[k].pc = "pull_write"
                       /\ (t.pc = "pull_write" /\ task'[k] # t) =>
                             local'[dev(k)][c][id] = t.rows[t.i].doc]_vars

\* The user of device B has deleted a territory and the sync of handleDelete has
\* returned: the remote record is still there, and the pull of that sync has
\* put the document back into the local store.
C27_Witness ==
    \E id \in Ids :
        /\ deletingId["B"] = id
        /\ task[<<"B", 2>>].pc = "done"
        /\ remote["territories"][id] # Absent
        /\ local["B"]["territories"][id] = remote["territories"][id]

\* C28 as stated, with no local delete in play: whenever no pull or push of
\* device B is in flight and its cursor of the houses has a value, every remote
\* house of the tenant with updated_at in a millisecond before the cursor's is in
\* B's local store with an updated_at at least as great (compared as the pull
\* compares them).
C28_CursorSound ==
    LET cursor == replicationStates["B"]["houses"].lastSync
    IN  (cursor # 0 /\ \A k \in Tasks : dev(k) = "B" => task[k].pc \in {"idle", "done"}) =>
           \A id \in Ids :
              (/\ remote["houses"][id] # Absent
               /\ remote["houses"][id].congregation_id = congregation["B"]
               /\ getTime(remote["houses"][id].updated_at) < getTime(cursor)) =>
                 /\ local["B"]["houses"][id] # Absent
                 /\ getTime(local["B"]["houses"][id].updated_at)
                       >= getTime(remote["houses"][id].updated_at)

\* C29 as stated: the cursor of a collection never decreases.
C29_CursorMonotonic ==
    [][\A d \in Devices, c \in CollectionNames :
          replicationStates'[d][c].lastSync >= replicationStates[d][c].lastSync]_vars

\* C30 as stated: the first syncCollection a device runs for tenant c2 reads no
\* cursor, so its pull has no since filter, whatever the device has synced for
\* tenant c1 before.
C30_CursorPerTenant ==
    [][\A d \in Devices :
          (task[<<d, 2>>].pc = "idle" /\ task'[<<d, 2>>].pc = "pull_query") =>
             task'[<<d, 2>>].since = 0]_vars

====
